---- MODULE Spec2Model ----
(***************************************************************************)
(* Scene synchronisation of the Living Notebook: the voice-command         *)
(* sanitiser (interpretVoiceCommand), the scene merge done by              *)
(* mediaRecorder.onstop in App.tsx, and the App's recording / analysis /   *)
(* reset life cycle.                                                       *)
(*                                                                         *)
(* Numbers are fixed point, in thousandths (friction 0.1 is 100, x = 400   *)
(* is 400000).  A JavaScript value is a record [k, v]: k is its kind and v *)
(* the number it carries (what parseFloat reads from it), so that numbers, *)
(* null, undefined, NaN and strings can be compared with one another.      *)
(***************************************************************************)
EXTENDS Integers, Sequences, FiniteSets, TLC

VARIABLES
    mode,            \* App.tsx:38   AppMode
    sceneConfig,     \* App.tsx:39   SceneConfig | null
    physicsState,    \* App.tsx:40   PhysicsState
    loadingMsg,      \* App.tsx:41   "" | "analyzing" | "processing"
    toastMsg,        \* App.tsx:44   the toast shown, "" for null
    isRecording,     \* App.tsx:61
    recognition,     \* App.tsx:50   the SpeechRecognition: "idle" | "listening"
    mediaRecorderRef,    \* App.tsx:62   the current recorder, 0 for null
    recordingStartTime,  \* App.tsx:64
    recorders,       \* every MediaRecorder made by toggleRecording, with the
                     \* place its onstop handler has reached
    analyses,        \* the analyzeSketch calls in flight (App.tsx:174)
    now,             \* Date.now(), milliseconds, modulo a multiple of 10000
    lastCmd,         \* history: the last voice command onstop applied: the
                     \* scene and physics before (pre) and after (post), the
                     \* payload (raw), what interpretVoiceCommand returned
                     \* (response), the scenes rendered on the way (seen),
                     \* Date.now() when the response was sanitised (at)
    engine,          \* SimulationCanvas.tsx:12   engineRef.current: gravity and
                     \* timing.timeScale of the Matter engine
    probe,           \* the arguments and the result of one call of sanitizeNumber
    render,          \* SimulationCanvas.tsx:13   renderRef.current: the width of
                     \* render.bounds (dx, in hundredths of a world unit) and
                     \* render.flash
    world,           \* SimulationCanvas.tsx:67-143   engine.world: the bodies and
                     \* the constraints made from the scene
    closure,         \* SimulationCanvas.tsx:10, 201   the physicsState prop that
                     \* the handlers of the engine effect closed over
    contact          \* history: the collisionStart event of the last step, if
                     \* that was one: its pairs, enableCollisionEffects of the
                     \* physics parameters at that time (enabled), render.flash
                     \* before and after it

appVars == <<loadingMsg, toastMsg, isRecording, recognition, mediaRecorderRef,
             recordingStartTime, recorders, analyses>>

vars == <<mode, sceneConfig, physicsState, loadingMsg, toastMsg, isRecording,
          recognition, mediaRecorderRef, recordingStartTime, recorders, analyses,
          now, lastCmd, engine, probe, render, world, closure, contact>>

\* what the engine effect of SimulationCanvas makes besides the engine
renderVars == <<render, world, closure>>

\* the state of SimulationCanvas and of a single sanitizeNumber call
canvasVars == <<engine, probe, render, world, closure, contact>>

-----------------------------------------------------------------------------
(* JavaScript values *)

Num(n) == [k |-> "number", v |-> n]
Undef == [k |-> "undefined", v |-> 0]
Null == [k |-> "null", v |-> 0]
NaNVal == [k |-> "NaN", v |-> 0]
PosInf == [k |-> "Infinity", v |-> 0]
NegInf == [k |-> "-Infinity", v |-> 0]
\* a string that parseFloat reads as the number n ("12px"), and one it cannot read
Str(n) == [k |-> "string", v |-> n]
BadStr == [k |-> "badstring", v |-> 0]
Bool(b) == [k |-> "boolean", v |-> IF b THEN 1 ELSE 0]

IsDefined(val) == val # Undef

\* Number.isFinite: a number, and finite
IsFiniteNumber(val) == val.k = "number"

\* parseFloat(val): a finite number, or NaN / Infinity
ParseFloat(val) ==
    CASE val.k = "number" -> val
      [] val.k = "string" -> Num(val.v)
      [] val.k = "Infinity" -> PosInf
      [] val.k = "-Infinity" -> NegInf
      [] OTHER -> NaNVal

\* ToNumber(val), the conversion the operator * applies: null is 0, a boolean
\* 0 or 1, a string that is no numeric literal ("12px", "abc") and undefined
\* are NaN
ToNumber(val) ==
    CASE val.k \in {"number", "Infinity", "-Infinity"} -> val
      [] val.k = "null" -> Num(0)
      [] val.k = "boolean" -> Num(val.v * 1000)
      [] OTHER -> NaNVal

Min(a, b) == IF a < b THEN a ELSE b
Max(a, b) == IF a > b THEN a ELSE b

\* the bug of returning the parsed number without clamping it
sanitizeNumberNoClamp(val, min, max, fallback) ==
    LET n == ParseFloat(val) IN
    IF n.k # "number"
    THEN IF fallback # Undef THEN fallback ELSE Num(min)
    ELSE n

\* the bug of wrapping a number above max by the width of the range instead
\* of clamping it
sanitizeNumberWrap(val, min, max, fallback) ==
    LET n == ParseFloat(val) IN
    IF n.k # "number"
    THEN IF fallback # Undef THEN fallback ELSE Num(min)
    ELSE IF n.v > max THEN Num(n.v - (max - min) - 1) ELSE Num(Max(n.v, min))

\* ErrorBoundary.tsx:99-103
sanitizeNumber(val, min, max, fallback) ==
    LET n == ParseFloat(val) IN
    IF n.k # "number"
    THEN IF fallback # Undef THEN fallback ELSE Num(min)
    ELSE Num(Min(Max(n.v, min), max))

-----------------------------------------------------------------------------
(* Scene data: types.ts *)

\* SceneConfig | null (App.tsx:39): the null scene
NoScene == [present |-> FALSE, bodies |-> <<>>, constraints |-> <<>>]

\* a SceneConfig object (types.ts:28-31)
Scene(bodies, constraints) ==
    [present |-> TRUE, bodies |-> bodies, constraints |-> constraints]

\* BodyDef (types.ts:6-18); an absent optional field is Undef, an absent type
\* is "undefined".  isStatic stands for the fields the sanitiser passes
\* through untouched (isStatic, angle, color).
Body(id, type, x, y, width, height, radius, friction, isStatic) ==
    [id |-> id, type |-> type, x |-> x, y |-> y, width |-> width,
     height |-> height, radius |-> radius, friction |-> friction,
     isStatic |-> isStatic]

\* ConstraintDef (types.ts:20-26); an absent bodyBId is "" (the code tests
\* bodyBId by truthiness, which also reads "" as absent)
NoId == ""
Constraint(bodyAId, bodyBId, pointB, stiffness, length) ==
    [bodyAId |-> bodyAId, bodyBId |-> bodyBId, pointB |-> pointB,
     stiffness |-> stiffness, length |-> length]

\* the names of the optional, spreadable fields of a BodyDef
BodyFields == {"type", "x", "y", "width", "height", "radius", "friction", "isStatic"}

\* whether a fragment carries field f
HasField(b, f) == IF f = "type" THEN b.type # "undefined" ELSE b[f] # Undef

\* the bug of assigning the fragment instead of spreading it over the body
SpreadBodyReplace(a, b) == b

\* { ...a, ...b } of two bodies (App.tsx:283): b's own fields win
SpreadBody(a, b) ==
    [f \in DOMAIN a |->
        IF f = "id" THEN b.id
        ELSE IF HasField(b, f) THEN b[f] ELSE a[f]]

-----------------------------------------------------------------------------
(* interpretVoiceCommand: ErrorBoundary.tsx:390-436 *)

\* ToString(n) left-padded to four digits, for 0 <= n < 10000
Pad4(n) ==
    LET s == ToString(n) IN
    IF n < 10 THEN "000" \o s
    ELSE IF n < 100 THEN "00" \o s
    ELSE IF n < 1000 THEN "0" \o s
    ELSE s

\* Date.now().toString().slice(-4) (ErrorBoundary.tsx:390)
Timestamp(t) == Pad4(t % 10000)

\* `${b.id}_${timestamp}` (ErrorBoundary.tsx:397)
MintId(id, timestamp) == id \o "_" \o timestamp

\* ErrorBoundary.tsx:395-410, one new body
SanitizeNewBody(b, timestamp) ==
    [b EXCEPT
        !.id = MintId(b.id, timestamp),
        !.friction = sanitizeNumber(b.friction, 0, 1000, Num(100)),
        !.x = sanitizeNumber(b.x, -2000000, 2000000, Num(400000)),
        !.y = sanitizeNumber(b.y, -2000000, 2000000, Num(300000)),
        !.radius = IF b.type = "circle"
                   THEN sanitizeNumber(b.radius, 1000, 400000, Num(20000))
                   ELSE b.radius,
        !.width = IF b.type = "rectangle"
                  THEN sanitizeNumber(b.width, 1000, 2000000, Num(100000))
                  ELSE b.width,
        !.height = IF b.type = "rectangle"
                   THEN sanitizeNumber(b.height, 1000, 2000000, Num(20000))
                   ELSE b.height]

\* ErrorBoundary.tsx:415-422, one update fragment
SanitizeUpdatedBody(b) ==
    [b EXCEPT
        !.friction = IF b.friction # Undef
                     THEN sanitizeNumber(b.friction, 0, 1000, Num(100)) ELSE Undef,
        !.x = IF b.x # Undef THEN sanitizeNumber(b.x, -2000000, 2000000, b.x) ELSE Undef,
        !.y = IF b.y # Undef THEN sanitizeNumber(b.y, -2000000, 2000000, b.y) ELSE Undef,
        !.radius = IF b.radius # Undef
                   THEN sanitizeNumber(b.radius, 1000, 400000, b.radius) ELSE Undef,
        !.width = IF b.width # Undef
                  THEN sanitizeNumber(b.width, 1000, 2000000, b.width) ELSE Undef,
        !.height = IF b.height # Undef
                   THEN sanitizeNumber(b.height, 1000, 2000000, b.height) ELSE Undef]

\* idMap (ErrorBoundary.tsx:391-399): the model ids of the command's new bodies
IdMapKeys(newBodies) == {newBodies[i].id : i \in 1..Len(newBodies)}

\* the property names every plain object inherits from Object.prototype
ProtoKeys ==
    {"__proto__", "constructor", "hasOwnProperty", "isPrototypeOf",
     "propertyIsEnumerable", "toLocaleString", "toString", "valueOf"}

\* what reading an inherited property of the plain object idMap gives: a
\* function or an object, no string; written here as a marked id
ProtoValue(id) == "[Object.prototype." \o id \o "]"

\* `if (idMap[id]) ... = idMap[id]` (ErrorBoundary.tsx:391, 399, 428-429).
\* idMap is the plain object {}: a key set at line 399 reads as the minted id
\* (assigning a string to the key __proto__ sets nothing), any other name of
\* Object.prototype reads as the inherited, truthy, value, and every other
\* key as undefined, which leaves the reference as it is.
Remap(id, newBodies, timestamp) ==
    IF id \in IdMapKeys(newBodies) \ {"__proto__"} THEN MintId(id, timestamp)
    ELSE IF id \in ProtoKeys THEN ProtoValue(id)
    ELSE id

\* ErrorBoundary.tsx:427-433, one new constraint
SanitizeConstraint(c, newBodies, timestamp) ==
    [c EXCEPT
        !.bodyAId = Remap(c.bodyAId, newBodies, timestamp),
        !.bodyBId = IF c.bodyBId # NoId
                    THEN Remap(c.bodyBId, newBodies, timestamp) ELSE c.bodyBId,
        !.stiffness = IF c.stiffness # Undef
                      THEN sanitizeNumber(c.stiffness, 1, 1000, Num(100)) ELSE Undef,
        !.length = IF c.length # Undef
                   THEN sanitizeNumber(c.length, 1000, 1000000, Undef) ELSE Undef]

\* what interpretVoiceCommand returns for the parsed payload `result`
\* (ErrorBoundary.tsx:390-436)
interpretVoiceCommand(result, t) ==
    LET timestamp == Timestamp(t) IN
    [result EXCEPT
        !.newBodies = [i \in 1..Len(result.newBodies) |->
                          SanitizeNewBody(result.newBodies[i], timestamp)],
        !.updatedBodies = [i \in 1..Len(result.updatedBodies) |->
                              SanitizeUpdatedBody(result.updatedBodies[i])],
        !.newConstraints = [i \in 1..Len(result.newConstraints) |->
                               SanitizeConstraint(result.newConstraints[i],
                                                  result.newBodies, timestamp)]]

-----------------------------------------------------------------------------
(* The scene merge of mediaRecorder.onstop: App.tsx:255-316 *)

\* updatedBodiesList.findIndex(b => b.id === id) (App.tsx:280); 0 for -1
FindIndex(bodies, id) ==
    IF \E i \in 1..Len(bodies) : bodies[i].id = id
    THEN CHOOSE i \in 1..Len(bodies) :
            /\ bodies[i].id = id
            /\ \A j \in 1..(i - 1) : bodies[j].id # id
    ELSE 0

\* the bug of pushing a fragment that matches no body as a new body
ApplyUpdateOrAdd(bodies, updatedBody) ==
    LET index == FindIndex(bodies, updatedBody.id) IN
    IF index # 0
    THEN [bodies EXCEPT ![index] = SpreadBody(bodies[index], updatedBody)]
    ELSE Append(bodies, updatedBody)

\* one turn of response.updatedBodies.forEach (App.tsx:279-285)
ApplyUpdate(bodies, updatedBody) ==
    LET index == FindIndex(bodies, updatedBody.id) IN
    IF index # 0
    THEN [bodies EXCEPT ![index] = SpreadBody(bodies[index], updatedBody)]
    ELSE bodies

\* response.updatedBodies.forEach over the first n fragments (App.tsx:278-286)
RECURSIVE ApplyUpdates(_, _, _)
ApplyUpdates(bodies, updatedBodies, n) ==
    IF n = 0 THEN bodies
    ELSE ApplyUpdate(ApplyUpdates(bodies, updatedBodies, n - 1), updatedBodies[n])

\* the updater of the first setSceneConfig (App.tsx:269-293)
MergeUpdater(prev, response) ==
    LET safeBodies == prev.bodies
        safeConstraints == prev.constraints
        updatedBodiesList ==
            ApplyUpdates(safeBodies, response.updatedBodies, Len(response.updatedBodies))
    IN  Scene(updatedBodiesList \o response.newBodies,
              safeConstraints \o response.newConstraints)

\* idsToRemove.includes(id) (App.tsx:308-311)
Includes(ids, id) == \E i \in 1..Len(ids) : ids[i] = id

\* the bug of filtering the constraints on bodyAId alone
KeepsConstraintAOnly(c, idsToRemove) == ~Includes(idsToRemove, c.bodyAId)

\* the constraint filter of the removal (App.tsx:309-312)
KeepsConstraint(c, idsToRemove) ==
    /\ ~Includes(idsToRemove, c.bodyAId)
    /\ (c.bodyBId = NoId \/ ~Includes(idsToRemove, c.bodyBId))

\* the updater of the second setSceneConfig (App.tsx:299-314); SelectSeq is
\* array.filter: it keeps the order
RemoveUpdater(prev, response) ==
    IF ~prev.present THEN NoScene
    ELSE LET idsToRemove == response.removeBodyIds
             KeepBody(b) == ~Includes(idsToRemove, b.id)
             KeepC(c) == KeepsConstraint(c, idsToRemove)
         IN  Scene(SelectSeq(prev.bodies, KeepBody),
                   SelectSeq(prev.constraints, KeepC))

\* the updater of setPhysicsState (App.tsx:256-260)
PhysicsUpdater(prev, response) ==
    LET u == response.physicsUpdates IN
    [gravity |-> [x |-> IF u.gravity.x # Undef THEN u.gravity.x ELSE prev.gravity.x,
                  y |-> IF u.gravity.y # Undef THEN u.gravity.y ELSE prev.gravity.y],
     timeScale |-> IF u.timeScale # Undef THEN u.timeScale ELSE prev.timeScale,
     enableCollisionEffects |->
         IF u.enableCollisionEffects # Undef
         THEN u.enableCollisionEffects ELSE prev.enableCollisionEffects]

\* the guards of the three state updates (App.tsx:255, 265-267, 298)
HasPhysicsUpdates(response) == response.physicsUpdates.present
\* the bug of running the merge updater whatever the lists hold
HasAdditionsAlways(response) == TRUE

HasAdditions(response) ==
    \/ Len(response.newBodies) > 0
    \/ Len(response.newConstraints) > 0
    \/ Len(response.updatedBodies) > 0
HasRemovals(response) == Len(response.removeBodyIds) > 0

\* the bug of an await between the additions and the removals: the removal is
\* queued by a later task
OnStopUpdatesAwaitBetween(response) ==
    << (IF HasPhysicsUpdates(response) THEN <<"physics">> ELSE <<>>)
       \o (IF HasAdditions(response) THEN <<"merge">> ELSE <<>>),
       (IF HasRemovals(response) THEN <<"remove">> ELSE <<>>) >>

\* The state updates that onstop queues once the response is there, in the
\* order of the calls, grouped by the task that queues them: App.tsx:255-316
\* runs without an await, so all of them are queued in one task.
OnStopUpdates(response) ==
    << (IF HasPhysicsUpdates(response) THEN <<"physics">> ELSE <<>>)
       \o (IF HasAdditions(response) THEN <<"merge">> ELSE <<>>)
       \o (IF HasRemovals(response) THEN <<"remove">> ELSE <<>>) >>

\* one queued updater applied to the state <<physicsState, sceneConfig>>
ApplyUpdater(st, op, response) ==
    CASE op = "physics" -> [st EXCEPT !.physics = PhysicsUpdater(st.physics, response)]
      [] op = "merge" -> [st EXCEPT !.scene = MergeUpdater(st.scene, response)]
      [] op = "remove" -> [st EXCEPT !.scene = RemoveUpdater(st.scene, response)]

\* the updaters of one task applied in order
RECURSIVE ApplyTask(_, _, _, _)
ApplyTask(st, task, response, n) ==
    IF n = 0 THEN st
    ELSE ApplyUpdater(ApplyTask(st, task, response, n - 1), task[n], response)

\* React applies the updaters a task queued and then renders once: the state
\* after each task is what a render (and the [sceneConfig] effect of
\* SimulationCanvas) sees.  The result: the state after the first n tasks and
\* the scenes rendered on the way.
RECURSIVE CommitTasks(_, _, _, _)
CommitTasks(st, tasks, response, n) ==
    IF n = 0 THEN [st |-> st, seen |-> {}]
    ELSE LET before == CommitTasks(st, tasks, response, n - 1)
             after == ApplyTask(before.st, tasks[n], response, Len(tasks[n]))
         IN  [st |-> after,
              seen |-> IF tasks[n] = <<>> THEN before.seen
                       ELSE before.seen \cup {after.scene}]

\* onstop from the response on (App.tsx:253-316): the committed state and the
\* scenes rendered
OnStopCommit(physics, scene, response) ==
    LET tasks == OnStopUpdates(response) IN
    CommitTasks([physics |-> physics, scene |-> scene], tasks, response, Len(tasks))

-----------------------------------------------------------------------------
(* Bounds and input sets *)

\* the longest newBodies list of a command
MaxNewBodies == 2
\* how many of a command's four lists may be non-empty
MaxParts == 2
\* voice commands in one run of MergeSpec
MaxCmds == 2
\* MediaRecorders made in one run of Spec
MaxRecorders == 2
\* analyzeSketch calls in flight at once
MaxAnalyses == 1
\* the clock stops here
MaxNow == 10000
\* Date.now() advances by this much between two events of the model
TickStep == 5000

\* App.tsx:21-25
DEFAULT_PHYSICS ==
    [gravity |-> [x |-> Num(0), y |-> Num(9810)],
     timeScale |-> Num(1000),
     enableCollisionEffects |-> Bool(TRUE)]

\* no physicsUpdates in the response
NoPhysicsUpdates ==
    [present |-> FALSE, gravity |-> [x |-> Undef, y |-> Undef],
     timeScale |-> Undef, enableCollisionEffects |-> Undef]

\* bodies the model may submit in newBodies
RawBall == Body("a", "circle", Num(400000), Num(200000), Undef, Undef, Num(30000), Undef, Bool(FALSE))
RawBox == Body("b", "rectangle", Num(400000), Num(200000), Undef, Undef, Undef, Undef, Bool(FALSE))
RawWild == Body("a", "rectangle", NaNVal, Num(9999000), Str(50000), Null, BadStr, Num(5000), Bool(TRUE))

RawNewBodyLists ==
    {<<>>, <<RawBall>>, <<RawBox>>, <<RawWild>>, <<RawBall, RawBox>>, <<RawBall, RawWild>>}

\* an update fragment that carries nothing but its id
EmptyFragment(id) == Body(id, "undefined", Undef, Undef, Undef, Undef, Undef, Undef, Undef)

RawFragments ==
    {[EmptyFragment(id) EXCEPT !.friction = Num(900)] : id \in {"a", "a_0000", "zz"}}
    \cup {[EmptyFragment("a") EXCEPT !.x = Num(-3000000), !.y = Num(100000)],
          [EmptyFragment("b") EXCEPT !.type = "circle", !.radius = Num(5000)]}

RawFragmentLists ==
    {<<>>} \cup {<<f>> : f \in RawFragments}
    \cup {<<[EmptyFragment("a") EXCEPT !.friction = Num(900)],
            [EmptyFragment("a") EXCEPT !.x = Num(-3000000), !.y = Num(100000)]>>}

RawConstraints ==
    {Constraint("a", "b", Undef, Undef, Undef),
     Constraint("a", NoId, Num(1), Num(5000), Num(50000)),
     Constraint("zz", NoId, Num(1), Undef, Undef),
     Constraint("a", "zz", Undef, Undef, Undef),
     Constraint("a_0000", "b", Undef, Num(500), Undef)}

RawConstraintLists == {<<>>} \cup {<<c>> : c \in RawConstraints}

RawRemoveLists == {<<>>, <<"a">>, <<"b">>, <<"a_0000">>, <<"a", "zz">>}

\* the parsed payload of a voice command (VoiceCommandResponse, types.ts:39-46);
\* an absent list is the empty list, which every branch of the code treats alike
RawCommand(summary, physicsUpdates, newBodies, updatedBodies, newConstraints, removeBodyIds) ==
    [summary |-> summary, physicsUpdates |-> physicsUpdates, newBodies |-> newBodies,
     updatedBodies |-> updatedBodies, newConstraints |-> newConstraints,
     removeBodyIds |-> removeBodyIds]

\* how many of the four lists of a command are non-empty
Parts(nb, ub, nc, rm) ==
    (IF nb # <<>> THEN 1 ELSE 0) + (IF ub # <<>> THEN 1 ELSE 0)
    + (IF nc # <<>> THEN 1 ELSE 0) + (IF rm # <<>> THEN 1 ELSE 0)

MergeCommands ==
    {RawCommand(TRUE, NoPhysicsUpdates, nb, ub, nc, rm) :
        <<nb, ub, nc, rm>> \in
            {q \in RawNewBodyLists \X RawFragmentLists \X RawConstraintLists \X RawRemoveLists :
                /\ Len(q[1]) <= MaxNewBodies
                /\ Parts(q[1], q[2], q[3], q[4]) <= MaxParts}}

\* scenes an analysis may have produced: unique ids, every constraint resolves
SceneAB ==
    Scene(<<Body("a", "circle", Num(100000), Num(100000), Undef, Undef, Num(20000), Num(100), Bool(FALSE)),
            Body("b", "rectangle", Num(400000), Num(580000), Num(800000), Num(40000), Undef, Undef, Bool(TRUE))>>,
          <<Constraint("a", "b", Undef, Undef, Undef),
            Constraint("a", NoId, Num(1), Undef, Undef)>>)

InitialScenes == {NoScene, Scene(<<>>, <<>>), SceneAB}

\* no voice command handled yet
NoCmd ==
    [n |-> 0, outcome |-> "none", pre |-> NoScene, prePhysics |-> DEFAULT_PHYSICS,
     raw |-> RawCommand(FALSE, NoPhysicsUpdates, <<>>, <<>>, <<>>, <<>>),
     response |-> RawCommand(FALSE, NoPhysicsUpdates, <<>>, <<>>, <<>>, <<>>),
     post |-> NoScene, postPhysics |-> DEFAULT_PHYSICS, seen |-> {}, at |-> 0]

\* a MediaRecorder the App has not made yet; stage is where the recorder and
\* its onstop handler are, outcome how its command ended, afterReset whether
\* resetSimulation ran while the command was recording or being processed
NoRecorder == [stage |-> "none", outcome |-> "none", afterReset |-> FALSE]

\* no Matter engine: SimulationCanvas is not mounted (engineRef.current is null,
\* SimulationCanvas.tsx:12).  MergeSpec and Spec follow the App and leave the
\* engine aside; PhysicsSpec follows it.
NoEngine == [present |-> FALSE, gravity |-> [x |-> Num(0), y |-> Num(0)],
             timeScale |-> Num(0)]

\* render.flash before any contact (undefined, SimulationCanvas.tsx:236)
NoFlash == [set |-> FALSE, x |-> Undef, y |-> Undef, frame |-> 0]

\* no Render, no world and no handlers: SimulationCanvas is not mounted
NoRender == [present |-> FALSE, dx |-> 0, flash |-> NoFlash]
NoWorld == [bodies |-> {}, constraints |-> <<>>]
NoClosure == [enableCollisionEffects |-> Undef]
\* the last step was no contact event
NoContact == [seen |-> FALSE, pairs |-> <<>>, enabled |-> Undef,
              before |-> NoFlash, after |-> NoFlash]
NoCanvas ==
    render = NoRender /\ world = NoWorld /\ closure = NoClosure /\ contact = NoContact

\* no call of sanitizeNumber under way
NoProbe == [called |-> FALSE, val |-> Undef, min |-> 0, max |-> 0,
            fallback |-> Undef, out |-> Undef, again |-> Undef]

-----------------------------------------------------------------------------
(* MergeSpec: voice commands handled one after the other on one scene *)

MergeInit ==
    /\ mode = "SIMULATION"
    /\ sceneConfig \in InitialScenes
    /\ physicsState = DEFAULT_PHYSICS
    /\ now = 0
    /\ lastCmd = NoCmd
    /\ loadingMsg = ""
    /\ toastMsg = ""
    /\ isRecording = FALSE
    /\ recognition = "idle"
    /\ mediaRecorderRef = 0
    /\ recordingStartTime = 0
    /\ recorders = [r \in 1..MaxRecorders |-> NoRecorder]
    /\ analyses = {}
    /\ engine = NoEngine
    /\ probe = NoProbe
    /\ NoCanvas

\* time passes
Tick ==
    /\ now + TickStep <= MaxNow
    /\ now' = now + TickStep
    /\ UNCHANGED <<mode, sceneConfig, physicsState, lastCmd>>
    /\ UNCHANGED <<loadingMsg, toastMsg, isRecording, recognition, mediaRecorderRef,
                   recorders, analyses>>
    /\ UNCHANGED canvasVars
    /\ UNCHANGED recordingStartTime

\* one voice command, from the service's answer to the committed state
\* (ErrorBoundary.tsx:381-436, App.tsx:245-316); a command takes a recording
\* and a service call, so two commands are answered at different times
VoiceCommand(raw) ==
    LET response == interpretVoiceCommand(raw, now)
        done == OnStopCommit(physicsState, sceneConfig, response)
    IN  /\ lastCmd.n < MaxCmds
        /\ lastCmd.n = 0 \/ now > lastCmd.at
        /\ sceneConfig' = done.st.scene
        /\ physicsState' = done.st.physics
        /\ lastCmd' = [n |-> lastCmd.n + 1, outcome |-> "ok", pre |-> sceneConfig,
                       prePhysics |-> physicsState, raw |-> raw,
                       response |-> response, post |-> done.st.scene,
                       postPhysics |-> done.st.physics, seen |-> done.seen,
                       at |-> now]
        /\ UNCHANGED <<mode, now>>
        /\ UNCHANGED canvasVars
        /\ UNCHANGED appVars

MergeNext ==
    \/ Tick
    \/ \E raw \in MergeCommands : VoiceCommand(raw)

MergeSpec == MergeInit /\ [][MergeNext]_vars

-----------------------------------------------------------------------------
(* SanitizeSpec: voice commands whose payload holds whatever the generative *)
(* model may write: ids that are property names of Object.prototype, numbers *)
(* that are NaN, null, strings or out of range, fields that do not go with  *)
(* the body's type                                                           *)

\* a new body whose id is __proto__
RawProto == Body("__proto__", "circle", Num(100000), Num(100000), Undef, Undef, Num(10000), Undef, Bool(FALSE))
\* a new circle that also carries a width and a height, a new body without type
RawCircleWithSize == Body("c", "circle", Num(0), Num(0), NaNVal, Num(9000000), Num(500000), Num(-1000), Bool(FALSE))
RawNoType == Body("d", "undefined", PosInf, BadStr, Num(0), Undef, Num(-5000), Str(2000), Bool(FALSE))

SanitizeNewBodyLists ==
    {<<>>, <<RawBall>>, <<RawWild>>, <<RawProto>>, <<RawCircleWithSize>>, <<RawNoType>>,
     <<RawBall, RawBox>>}

SanitizeConstraintLists ==
    {<<>>,
     <<Constraint("a", "b", Undef, Undef, Undef)>>,
     <<Constraint("a", NoId, Num(1), NaNVal, Null)>>,
     <<Constraint("constructor", NoId, Num(1), Num(5000), Num(-3000))>>,
     <<Constraint("__proto__", "a", Undef, BadStr, PosInf)>>,
     <<Constraint("b", "toString", Undef, Str(500), Str(2000000))>>}

SanitizeFragmentLists ==
    {<<[EmptyFragment("a") EXCEPT !.friction = Num(5000), !.x = Num(-3000000)]>>,
     <<[EmptyFragment("a") EXCEPT !.x = NaNVal, !.radius = Num(30000)]>>,
     <<[EmptyFragment("b") EXCEPT !.width = Null, !.height = BadStr]>>,
     <<[EmptyFragment("b") EXCEPT !.y = PosInf, !.friction = NaNVal]>>}

SanitizeCommands ==
    {RawCommand(TRUE, NoPhysicsUpdates, nb, <<>>, nc, <<>>) :
        nb \in SanitizeNewBodyLists, nc \in SanitizeConstraintLists}
    \cup {RawCommand(TRUE, NoPhysicsUpdates, <<>>, ub, <<>>, <<>>) : ub \in SanitizeFragmentLists}
    \cup {RawCommand(TRUE, NoPhysicsUpdates, <<>>, <<>>, <<>>, rm) : rm \in {<<"a">>, <<"constructor">>}}

SanitizeNext ==
    \/ Tick
    \/ \E raw \in SanitizeCommands : VoiceCommand(raw)

SanitizeSpec == MergeInit /\ [][SanitizeNext]_vars

-----------------------------------------------------------------------------
(* Spec: the App (App.tsx) *)

\* what analyzeSketch may resolve with
AnalysisScenes == {SceneAB}

\* commands the voice service may answer with
GravityUpdate ==
    [present |-> TRUE, gravity |-> [x |-> Undef, y |-> Num(1620)],
     timeScale |-> Undef, enableCollisionEffects |-> Undef]

AppCommands ==
    {RawCommand(TRUE, NoPhysicsUpdates, <<RawBall>>, <<>>, <<>>, <<>>),
     RawCommand(TRUE, NoPhysicsUpdates, <<RawBox>>, <<>>, <<>>, <<"a">>),
     RawCommand(TRUE, GravityUpdate, <<>>, <<>>, <<>>, <<>>),
     RawCommand(TRUE, NoPhysicsUpdates, <<>>,
                <<[EmptyFragment("zz") EXCEPT !.friction = Num(900)]>>, <<>>, <<>>),
     RawCommand(TRUE, NoPhysicsUpdates, <<>>,
                <<[EmptyFragment("a") EXCEPT !.friction = Num(900)]>>, <<>>, <<>>),
     RawCommand(FALSE, NoPhysicsUpdates, <<>>, <<>>, <<>>, <<>>)}

\* how the call to the voice service may end: an answer that parses (a command,
\* with or without summary; a number or an array reads as a command without
\* any field), the 30 s timer, an answer with no text, text that JSON.parse
\* rejects, an answer that parses to null or to an object whose lists are no
\* lists (reading a field of null, or forEach, throws a TypeError), any other
\* error of the service
ServiceKinds == {"ok", "timeout", "noText", "parseError", "notACommand", "serviceError"}

\* the ways a command fails
FailureKinds == {"shortRecording", "emptyAudio"} \cup (ServiceKinds \ {"ok"})

AppInit ==
    /\ mode = "CAMERA"
    /\ sceneConfig = NoScene
    /\ physicsState = DEFAULT_PHYSICS
    /\ loadingMsg = ""
    /\ toastMsg = ""
    /\ isRecording = FALSE
    /\ recognition = "idle"
    /\ mediaRecorderRef = 0
    /\ recordingStartTime = 0
    /\ recorders = [r \in 1..MaxRecorders |-> NoRecorder]
    /\ analyses = {}
    /\ now = 0
    /\ lastCmd = NoCmd

Init ==
    /\ AppInit
    /\ engine = NoEngine
    /\ probe = NoProbe
    /\ NoCanvas

\* The loading overlay (App.tsx:405-412) lies over <main>, the buttons
\* included, while loadingMsg is set: a click or a tap reaches no button.
OverlayShown == loadingMsg # ""

\* the call handleCapture makes next: each call is told from the others that
\* are in flight, by the least number none of them has
NextAnalysis ==
    CHOOSE a \in 1..MaxAnalyses \ analyses :
        \A b \in 1..MaxAnalyses \ analyses : a <= b

\* handleCapture up to the await (App.tsx:130-174); the button is rendered in
\* CAMERA mode only (App.tsx:467-474)
HandleCapture ==
    /\ mode = "CAMERA"
    /\ ~OverlayShown
    /\ analyses # 1..MaxAnalyses
    /\ mode' = "ANALYZING"
    /\ loadingMsg' = "analyzing"
    /\ analyses' = analyses \cup {NextAnalysis}
    /\ UNCHANGED canvasVars
    /\ UNCHANGED <<sceneConfig, physicsState, toastMsg, isRecording, recognition,
                   mediaRecorderRef, recordingStartTime, recorders, now, lastCmd>>

\* analyzeSketch resolved (App.tsx:174-176, 182-184)
AnalysisResolved(a, config) ==
    /\ a \in analyses
    /\ analyses' = analyses \ {a}
    /\ sceneConfig' = config
    /\ mode' = "SIMULATION"
    /\ loadingMsg' = ""
    /\ UNCHANGED canvasVars
    /\ UNCHANGED <<physicsState, toastMsg, isRecording, recognition,
                   mediaRecorderRef, recordingStartTime, recorders, now, lastCmd>>

\* analyzeSketch rejected: timeout, no text, bad JSON (App.tsx:177-184)
AnalysisFailed(a) ==
    /\ a \in analyses
    /\ analyses' = analyses \ {a}
    /\ toastMsg' = "analysisFailed"
    /\ mode' = "CAMERA"
    /\ loadingMsg' = ""
    /\ UNCHANGED canvasVars
    /\ UNCHANGED <<sceneConfig, physicsState, isRecording, recognition,
                   mediaRecorderRef, recordingStartTime, recorders, now, lastCmd>>

\* the recorder toggleRecording makes next
NextRecorder ==
    IF \E r \in 1..MaxRecorders : recorders[r].stage = "none"
    THEN CHOOSE r \in 1..MaxRecorders :
            /\ recorders[r].stage = "none"
            /\ \A q \in 1..(r - 1) : recorders[q].stage # "none"
    ELSE 0

\* toggleRecording, start branch up to the await of getUserMedia
\* (App.tsx:198-212); the button is rendered outside CAMERA mode (App.tsx:476-489)
StartRecording ==
    /\ mode # "CAMERA"
    /\ ~OverlayShown
    /\ ~isRecording
    /\ NextRecorder # 0
    /\ toastMsg' = ""
    /\ recognition' = "listening"
    /\ recorders' = [recorders EXCEPT ![NextRecorder].stage = "requested"]
    /\ UNCHANGED canvasVars
    /\ UNCHANGED <<mode, sceneConfig, physicsState, loadingMsg, isRecording,
                   mediaRecorderRef, recordingStartTime, analyses, now, lastCmd>>

\* getUserMedia resolved: the recorder starts (App.tsx:214-217, 335-336)
MicGranted(r) ==
    /\ recorders[r].stage = "requested"
    /\ recorders' = [recorders EXCEPT ![r].stage = "recording"]
    /\ mediaRecorderRef' = r
    /\ recordingStartTime' = now
    /\ isRecording' = TRUE
    /\ UNCHANGED canvasVars
    /\ UNCHANGED <<mode, sceneConfig, physicsState, loadingMsg, toastMsg,
                   recognition, analyses, now, lastCmd>>

\* getUserMedia rejected (App.tsx:337-340)
MicDenied(r) ==
    /\ recorders[r].stage = "requested"
    /\ recorders' = [recorders EXCEPT ![r].stage = "done", ![r].outcome = "micError"]
    /\ toastMsg' = "micError"
    /\ UNCHANGED canvasVars
    /\ UNCHANGED <<mode, sceneConfig, physicsState, loadingMsg, isRecording,
                   recognition, mediaRecorderRef, recordingStartTime, analyses,
                   now, lastCmd>>

\* toggleRecording, stop branch (App.tsx:189-197)
StopRecording ==
    /\ mode # "CAMERA"
    /\ ~OverlayShown
    /\ isRecording
    /\ IF mediaRecorderRef # 0 /\ recorders[mediaRecorderRef].stage = "recording"
       THEN /\ recorders' = [recorders EXCEPT ![mediaRecorderRef].stage = "stopped"]
            /\ isRecording' = FALSE
       ELSE UNCHANGED <<recorders, isRecording>>
    /\ recognition' = "idle"
    /\ UNCHANGED canvasVars
    /\ UNCHANGED <<mode, sceneConfig, physicsState, loadingMsg, toastMsg,
                   mediaRecorderRef, recordingStartTime, analyses, now, lastCmd>>

\* mediaRecorder.onstop up to the await of blobToBase64 (App.tsx:225-235)
OnStop(r) ==
    /\ recorders[r].stage = "stopped"
    /\ LET duration == now - recordingStartTime IN
       recorders' = IF duration < 500
                    THEN [recorders EXCEPT ![r].stage = "done",
                                           ![r].outcome = "shortRecording"]
                    ELSE [recorders EXCEPT ![r].stage = "encoding"]
    /\ UNCHANGED canvasVars
    /\ UNCHANGED <<mode, sceneConfig, physicsState, loadingMsg, toastMsg, isRecording,
                   recognition, mediaRecorderRef, recordingStartTime, analyses,
                   now, lastCmd>>

\* onstop from blobToBase64 to the await of the service (App.tsx:235-251,
\* 324-332; ErrorBoundary.tsx:213-215, 285-379); audioLongEnough is
\* audioBase64.length >= 100
Encoded(r, audioLongEnough) ==
    /\ recorders[r].stage = "encoding"
    /\ IF audioLongEnough
       THEN /\ loadingMsg' = "processing"
            /\ recorders' = [recorders EXCEPT ![r].stage = "awaiting"]
            /\ UNCHANGED toastMsg
       ELSE /\ loadingMsg' = ""
            /\ toastMsg' = "tooShort"
            /\ recorders' = [recorders EXCEPT ![r].stage = "done",
                                              ![r].outcome = "emptyAudio"]
    /\ UNCHANGED canvasVars
    /\ UNCHANGED <<mode, sceneConfig, physicsState, isRecording, recognition,
                   mediaRecorderRef, recordingStartTime, analyses, now, lastCmd>>

\* the bug of swallowing the TypeError of a payload whose lists are no lists
\* and returning what was parsed
InterpretResultLenient(kind, raw, t) ==
    CASE kind \in {"ok", "notACommand"} ->
            [ok |-> TRUE, msg |-> "", response |-> interpretVoiceCommand(raw, t)]
      [] kind = "timeout" -> [ok |-> FALSE, msg |-> "timedOut", response |-> raw]
      [] kind = "parseError" -> [ok |-> FALSE, msg |-> "invalidResponse", response |-> raw]
      [] OTHER -> [ok |-> FALSE, msg |-> "generic", response |-> raw]

\* the bug of a catch that does not tell the timer's rejection from the others
InterpretResultNoTimedOut(kind, raw, t) ==
    CASE kind = "ok" ->
            [ok |-> TRUE, msg |-> "", response |-> interpretVoiceCommand(raw, t)]
      [] kind = "parseError" -> [ok |-> FALSE, msg |-> "invalidResponse", response |-> raw]
      [] OTHER -> [ok |-> FALSE, msg |-> "generic", response |-> raw]

\* interpretVoiceCommand from the end of the service call on
\* (ErrorBoundary.tsx:379-451): what it returns or the message it throws
InterpretResult(kind, raw, t) ==
    CASE kind = "ok" ->
            [ok |-> TRUE, msg |-> "", response |-> interpretVoiceCommand(raw, t)]
      [] kind = "timeout" -> [ok |-> FALSE, msg |-> "timedOut", response |-> raw]
      [] kind = "parseError" -> [ok |-> FALSE, msg |-> "invalidResponse", response |-> raw]
      [] OTHER -> [ok |-> FALSE, msg |-> "generic", response |-> raw]

\* commandExecuted || response.summary (App.tsx:253-322)
ToastFor(response) ==
    IF \/ response.summary
       \/ HasAdditions(response)
       \/ HasRemovals(response)
       \/ /\ response.physicsUpdates.present
          /\ response.physicsUpdates # [NoPhysicsUpdates EXCEPT !.present = TRUE]
    THEN "success" ELSE "notUnderstood"

\* onstop from the end of interpretVoiceCommand on (App.tsx:245-332)
ServiceAnswer(r, kind, raw) ==
    LET res == InterpretResult(kind, raw, now)
        done == OnStopCommit(physicsState, sceneConfig, res.response)
    IN  /\ recorders[r].stage = "awaiting"
        /\ recorders' = [recorders EXCEPT ![r].stage = "done", ![r].outcome = kind]
        /\ loadingMsg' = ""
        /\ IF res.ok
           THEN /\ sceneConfig' = done.st.scene
                /\ physicsState' = done.st.physics
                /\ toastMsg' = ToastFor(res.response)
                /\ lastCmd' = [n |-> lastCmd.n + 1, outcome |-> "ok",
                               pre |-> sceneConfig, prePhysics |-> physicsState,
                               raw |-> raw, response |-> res.response,
                               post |-> done.st.scene,
                               postPhysics |-> done.st.physics, seen |-> done.seen,
                       at |-> now]
           ELSE /\ toastMsg' = res.msg
                /\ UNCHANGED <<sceneConfig, physicsState, lastCmd>>
        /\ UNCHANGED canvasVars
        /\ UNCHANGED <<mode, isRecording, recognition, mediaRecorderRef,
                       recordingStartTime, analyses, now>>

\* whether a recorder's command is recording or being processed
InProgress(rec) == rec.stage \in {"recording", "stopped", "encoding", "awaiting"}

\* resetSimulation (App.tsx:344-351); the button is rendered outside CAMERA mode
\* (App.tsx:476, 491-497)
ResetSimulation ==
    /\ mode # "CAMERA"
    /\ ~OverlayShown
    /\ physicsState' = DEFAULT_PHYSICS
    /\ mode' = "CAMERA"
    /\ sceneConfig' = NoScene
    /\ toastMsg' = ""
    /\ recorders' = [r \in 1..MaxRecorders |->
                        IF InProgress(recorders[r])
                        THEN [recorders[r] EXCEPT !.afterReset = TRUE]
                        ELSE recorders[r]]
    /\ UNCHANGED canvasVars
    /\ UNCHANGED <<loadingMsg, isRecording, recognition, mediaRecorderRef,
                   recordingStartTime, analyses, now, lastCmd>>

\* the 6 s timer of showToast (App.tsx:66-70), or the toast's close button
\* (App.tsx:390-397)
DismissToast ==
    /\ toastMsg # ""
    /\ toastMsg' = ""
    /\ UNCHANGED canvasVars
    /\ UNCHANGED <<mode, sceneConfig, physicsState, loadingMsg, isRecording,
                   recognition, mediaRecorderRef, recordingStartTime, recorders,
                   analyses, now, lastCmd>>

Next ==
    \/ Tick
    \/ HandleCapture
    \/ \E a \in 1..MaxAnalyses, config \in AnalysisScenes : AnalysisResolved(a, config)
    \/ \E a \in 1..MaxAnalyses : AnalysisFailed(a)
    \/ StartRecording
    \/ \E r \in 1..MaxRecorders : MicGranted(r)
    \/ \E r \in 1..MaxRecorders : MicDenied(r)
    \/ StopRecording
    \/ \E r \in 1..MaxRecorders : OnStop(r)
    \/ \E r \in 1..MaxRecorders, audioLongEnough \in BOOLEAN : Encoded(r, audioLongEnough)
    \/ \E r \in 1..MaxRecorders, kind \in ServiceKinds, raw \in AppCommands :
          ServiceAnswer(r, kind, raw)
    \/ ResetSimulation
    \/ DismissToast

Spec == Init /\ [][Next]_vars

\* the 30 s timer of timeoutPromise (ErrorBoundary.tsx:79-81) rejects the race
\* of a voice call (ErrorBoundary.tsx:285-379) that is still awaited
VoiceTimerFires(r) == \E raw \in AppCommands : ServiceAnswer(r, "timeout", raw)

\* LiveSpec: the App with timers that fire.  setTimeout is served by the event
\* loop, so the rejection of a race that is still pending is not put off for
\* ever: weak fairness for the timer of each voice call and for the rejection
\* of a pending analysis (ErrorBoundary.tsx:130-133).  The service itself is
\* under no obligation to answer.
LiveSpec ==
    /\ Init
    /\ [][Next]_vars
    /\ \A r \in 1..MaxRecorders : WF_vars(VoiceTimerFires(r))
    /\ \A a \in 1..MaxAnalyses : WF_vars(AnalysisFailed(a))

-----------------------------------------------------------------------------
(* NumberSpec: one call of sanitizeNumber and a second call on its result *)

\* the numbers tried as value, range ends and fallback, in thousandths
ProbeNumbers == {-5000, 0, 500, 1000, 1500, 3000}

\* the JSON values tried: numbers, strings parseFloat reads ("3px") and
\* strings it cannot read, null, booleans, an absent field, and what a
\* computed number can be: NaN, Infinity
ProbeValues ==
    {Num(n) : n \in ProbeNumbers} \cup {Str(500), Str(3000), BadStr, Null, Undef,
                                       NaNVal, PosInf, Bool(TRUE)}

\* the fallbacks tried: absent, or a number
ProbeFallbacks == {Undef} \cup {Num(n) : n \in ProbeNumbers}

ProbeRanges == {r \in {0, 1000, 1500} \X {0, 1000, 1500} : r[1] <= r[2]}

NumberInit ==
    /\ AppInit
    /\ engine = NoEngine
    /\ NoCanvas
    /\ \E val \in ProbeValues, r \in ProbeRanges, fallback \in ProbeFallbacks :
          probe = [NoProbe EXCEPT !.val = val, !.min = r[1], !.max = r[2],
                                  !.fallback = fallback]

\* sanitizeNumber(val, min, max, fallback), and sanitizeNumber of the result
\* with the same range and fallback
SanitizeCall ==
    /\ ~probe.called
    /\ LET out == sanitizeNumber(probe.val, probe.min, probe.max, probe.fallback) IN
       probe' = [probe EXCEPT
                    !.called = TRUE,
                    !.out = out,
                    !.again = sanitizeNumber(out, probe.min, probe.max, probe.fallback)]
    /\ UNCHANGED <<mode, sceneConfig, physicsState, now, lastCmd, engine>>
    /\ UNCHANGED appVars
    /\ UNCHANGED <<renderVars, contact>>

NumberNext == SanitizeCall

NumberSpec == NumberInit /\ [][NumberNext]_vars

-----------------------------------------------------------------------------
(* PhysicsSpec: physics-parameter updates and the physics effect of *)
(* SimulationCanvas (SimulationCanvas.tsx:308-325)                  *)

\* value * GRAVITY_SCALE_FACTOR (SimulationCanvas.tsx:314-316), in thousandths,
\* rounded towards zero: 9.81 gives 1
Normalized(val) ==
    LET n == ToNumber(val) IN
    IF n.k # "number" THEN n
    ELSE IF n.v >= 0 THEN Num((n.v * 1000) \div 9810)
         ELSE Num(0 - (((0 - n.v) * 1000) \div 9810))

\* the bug of applying the scaled value without clamping it
GravityAxisNoClamp(val, default) ==
    LET normalized == Normalized(val) IN
    IF IsFiniteNumber(normalized) THEN normalized ELSE Num(default)

\* isFinite(normalized) ? Math.min(Math.max(normalized, -10), 10) : default
\* (SimulationCanvas.tsx:318-319)
GravityAxis(val, default) ==
    LET normalized == Normalized(val) IN
    IF IsFiniteNumber(normalized)
    THEN Num(Min(Max(normalized.v, -10000), 10000))
    ELSE Num(default)

\* the physics effect (SimulationCanvas.tsx:308-325); the engine has a runner
\* whenever it exists (SimulationCanvas.tsx:35-36, 293-295)
PhysicsEffect(eng, physics) ==
    IF ~eng.present THEN eng
    ELSE [eng EXCEPT !.gravity = [x |-> GravityAxis(physics.gravity.x, 0),
                                  y |-> GravityAxis(physics.gravity.y, 1000)],
                     !.timeScale = physics.timeScale]

\* Engine.create() with the physics effect run on DEFAULT_PHYSICS
\* (SimulationCanvas.tsx:35-36, 308-325)
DefaultEngine ==
    PhysicsEffect([present |-> TRUE, gravity |-> [x |-> Num(0), y |-> Num(1000)],
                   timeScale |-> Num(1000)], DEFAULT_PHYSICS)

\* the gravity components a voice command may carry, in thousandths of m/s^2:
\* absent, numbers, and what JSON or a computation can put there instead
GravityValues ==
    {Undef, Num(0), Num(9810), Num(-9810), Num(24790), Num(1620), Num(200000),
     Num(-500000), NaNVal, PosInf, NegInf, Null, BadStr}

PhysicsUpdates ==
    {[present |-> TRUE, gravity |-> [x |-> gx, y |-> gy], timeScale |-> ts,
      enableCollisionEffects |-> Undef] :
        gx \in GravityValues, gy \in GravityValues, ts \in {Undef, Num(500)}}

\* the App with the scene config on display and no call under way
SimulationInit(config) ==
    /\ mode = "SIMULATION"
    /\ sceneConfig = config
    /\ physicsState = DEFAULT_PHYSICS
    /\ loadingMsg = ""
    /\ toastMsg = ""
    /\ isRecording = FALSE
    /\ recognition = "idle"
    /\ mediaRecorderRef = 0
    /\ recordingStartTime = 0
    /\ recorders = [r \in 1..MaxRecorders |-> NoRecorder]
    /\ analyses = {}
    /\ now = 0
    /\ lastCmd = NoCmd

PhysicsInit ==
    /\ SimulationInit(SceneAB)
    /\ engine = DefaultEngine
    /\ probe = NoProbe
    /\ NoCanvas

\* a voice command that carries physics updates only, from the response to the
\* render and the physics effect that follows it (App.tsx:255-262, 318-332;
\* SimulationCanvas.tsx:308-325)
PhysicsCommand(u) ==
    LET response == RawCommand(TRUE, u, <<>>, <<>>, <<>>, <<>>)
        done == OnStopCommit(physicsState, sceneConfig, response)
    IN  /\ physicsState' = done.st.physics
        /\ sceneConfig' = done.st.scene
        /\ engine' = PhysicsEffect(engine, done.st.physics)
        /\ toastMsg' = ToastFor(response)
        /\ loadingMsg' = ""
        /\ UNCHANGED <<mode, isRecording, recognition, mediaRecorderRef,
                       recordingStartTime, recorders, analyses, now, lastCmd, probe>>
        /\ UNCHANGED <<renderVars, contact>>

PhysicsNext == \E u \in PhysicsUpdates : PhysicsCommand(u)

PhysicsSpec == PhysicsInit /\ [][PhysicsNext]_vars

-----------------------------------------------------------------------------
(* ZoomSpec: wheel events on the canvas (SimulationCanvas.tsx:180-197) *)

\* The widths, in hundredths of a world unit, that the first Render.lookAt
\* (SimulationCanvas.tsx:55-60) gives the view: the box is 1000 wide and 800
\* high, and lookAt widens it to the shape of the canvas: 1000 for a canvas
\* of 5:4 or narrower, 1066.66 for the 4:3 container of App.tsx:414
DefaultWidths == {100000, 106666}

ZoomInit ==
    /\ SimulationInit(SceneAB)
    /\ engine = DefaultEngine
    /\ probe = NoProbe
    /\ world = NoWorld
    /\ closure = NoClosure
    /\ contact = NoContact
    /\ \E dx \in DefaultWidths : render = [present |-> TRUE, dx |-> dx, flash |-> NoFlash]

\* e.deltaY > 0 ? 1.1 : 0.9 (SimulationCanvas.tsx:183), in tenths
ZoomFactor(deltaY) == IF deltaY > 0 THEN 11 ELSE 9

\* handleWheel (SimulationCanvas.tsx:181-196): the width of render.bounds after
\* a wheel event; the box handed to lookAt has the shape of the canvas, so
\* lookAt takes it as it is
WheelWidth(dx, deltaY) ==
    LET zoomFactor == ZoomFactor(deltaY) IN
    IF dx > 400000 /\ zoomFactor > 10 THEN dx
    ELSE IF dx < 10000 /\ zoomFactor < 10 THEN dx
    ELSE (dx * zoomFactor) \div 10

\* a wheel event on the canvas; a rejected one leaves everything as it is
HandleWheel(deltaY) ==
    /\ render.present
    /\ render' = [render EXCEPT !.dx = WheelWidth(render.dx, deltaY)]
    /\ UNCHANGED <<mode, sceneConfig, physicsState, now, lastCmd, engine, probe,
                   world, closure, contact>>
    /\ UNCHANGED appVars

ZoomNext == \E deltaY \in {-100, 100} : HandleWheel(deltaY)

ZoomSpec == ZoomInit /\ [][ZoomNext]_vars

-----------------------------------------------------------------------------
(* CanvasSpec: SimulationCanvas under voice commands, contact events and *)
(* render ticks (SimulationCanvas.tsx:17-325)                            *)

\* whether a value counts as true in a condition
Truthy(val) ==
    CASE val.k = "boolean" -> val.v = 1
      [] val.k = "number" -> val.v # 0
      [] val.k \in {"string", "badstring", "Infinity", "-Infinity"} -> TRUE
      [] OTHER -> FALSE

\* Engine.create() (SimulationCanvas.tsx:35-36): Matter's gravity (0, 1) and
\* time scale 1
FreshEngine ==
    [present |-> TRUE, gravity |-> [x |-> Num(0), y |-> Num(1000)],
     timeScale |-> Num(1000)]

\* the bodies made from the scene (SimulationCanvas.tsx:67-110): the keys of
\* bodiesMap; a body without finite coordinates is not made
BodiesMap(scene) ==
    {scene.bodies[i].id : i \in {j \in 1..Len(scene.bodies) :
        IsFiniteNumber(scene.bodies[j].x) /\ IsFiniteNumber(scene.bodies[j].y)}}

\* the constraint made from a ConstraintDef (SimulationCanvas.tsx:119-137):
\* bodyB is the resolved body or none, pointB the anchor of the definition,
\* or the origin when there is neither an anchor nor a resolved bodyB
MakeConstraint(cDef, bodiesMap) ==
    LET bodyB == IF cDef.bodyBId # NoId /\ cDef.bodyBId \in bodiesMap
                 THEN cDef.bodyBId ELSE NoId
    IN  [def |-> cDef, bodyA |-> cDef.bodyAId, bodyB |-> bodyB,
         pointB |-> IF cDef.pointB # Undef THEN cDef.pointB
                    ELSE IF bodyB # NoId THEN Undef ELSE Num(0)]

\* the world built by the engine effect (SimulationCanvas.tsx:67-143): a
\* constraint is made if its bodyAId resolves (line 122)
BuildWorld(scene) ==
    LET bodiesMap == BodiesMap(scene)
        Made(cDef) == cDef.bodyAId \in bodiesMap
        defs == SelectSeq(scene.constraints, Made)
    IN  [bodies |-> bodiesMap,
         constraints |-> [i \in 1..Len(defs) |-> MakeConstraint(defs[i], bodiesMap)]]

\* the Render made by the engine effect (SimulationCanvas.tsx:41-60)
FreshRender(dx) == [present |-> TRUE, dx |-> dx, flash |-> NoFlash]

\* the physicsState the handlers of the engine effect close over
\* (SimulationCanvas.tsx:10, 200-201)
ClosureOf(physics) == [enableCollisionEffects |-> physics.enableCollisionEffects]

\* contact points: pair.collision.supports[0] (SimulationCanvas.tsx:203); Undef
\* for a pair without supports
Point(x, y) == [k |-> "point", x |-> x, y |-> y]
ContactPoints ==
    {Undef, Point(Num(100000), Num(200000)), Point(Num(300000), Num(50000)),
     Point(NaNVal, Num(50000))}

\* event.pairs of a collisionStart event: one pair, or two
ContactEvents ==
    {<<p>> : p \in ContactPoints}
    \cup {<<Point(Num(100000), Num(200000)), q>> : q \in ContactPoints}

\* event.pairs.forEach (SimulationCanvas.tsx:202-207): render.flash after the
\* first n pairs
RECURSIVE FlashAfter(_, _, _)
FlashAfter(flash, pairs, n) ==
    IF n = 0 THEN flash
    ELSE LET before == FlashAfter(flash, pairs, n - 1)
             collisionPoint == pairs[n]
         IN  IF collisionPoint # Undef
             THEN [set |-> TRUE, x |-> collisionPoint.x, y |-> collisionPoint.y, frame |-> 0]
             ELSE before

\* the condition under which afterRender draws the sparks
\* (SimulationCanvas.tsx:237)
FlashActive(flash) ==
    /\ flash.set
    /\ flash.frame < 10
    /\ IsFiniteNumber(flash.x)
    /\ IsFiniteNumber(flash.y)

\* scenes an analysis may return (ErrorBoundary.tsx:180-186: the parsed lists,
\* as they are): SceneAB, and one with a body that has no finite position and
\* constraints whose ids do not all resolve
SceneLoose ==
    Scene(<<Body("a", "circle", Num(100000), Num(100000), Undef, Undef, Num(20000), Undef, Bool(FALSE)),
            Body("b", "rectangle", Num(400000), Num(580000), Num(800000), Num(40000), Undef, Undef, Bool(TRUE)),
            Body("n", "circle", NaNVal, Num(100000), Undef, Undef, Num(20000), Undef, Bool(FALSE))>>,
          <<Constraint("a", "zz", Undef, Undef, Undef),
            Constraint("a", "n", Num(1), Undef, Undef),
            Constraint("zz", NoId, Num(1), Undef, Undef),
            Constraint("n", "a", Undef, Undef, Undef),
            Constraint("a", "b", Num(1), Undef, Undef),
            Constraint("b", NoId, Undef, Undef, Undef)>>)

CanvasScenes == {SceneAB, SceneLoose}

\* physicsUpdates of a command
Updates(gy, ts, effects) ==
    [present |-> TRUE, gravity |-> [x |-> Undef, y |-> gy], timeScale |-> ts,
     enableCollisionEffects |-> effects]

\* the commands of CanvasSpec: physics only, scene only (an update of body
\* a), and both
CanvasCommands ==
    {RawCommand(TRUE, u, <<>>, <<>>, <<>>, <<>>) :
        u \in {Updates(Num(24790), Num(500), Undef), Updates(Num(9810), Num(1000), Undef),
               Updates(Undef, Undef, Bool(FALSE)), Updates(Undef, Undef, Bool(TRUE))}}
    \cup {RawCommand(TRUE, NoPhysicsUpdates, <<>>,
                     <<[EmptyFragment("a") EXCEPT !.friction = Num(900)]>>, <<>>, <<>>),
          RawCommand(TRUE, Updates(Num(24790), Undef, Undef), <<>>,
                     <<[EmptyFragment("a") EXCEPT !.friction = Num(900)]>>, <<>>, <<>>)}

\* the canvas mounted on the result of an analysis: the engine effect, then
\* the physics effect (App.tsx:174-176, 451-454; SimulationCanvas.tsx:17-325)
CanvasInit ==
    /\ \E config \in CanvasScenes : SimulationInit(config) /\ world = BuildWorld(config)
    /\ probe = NoProbe
    /\ engine = DefaultEngine
    /\ closure = ClosureOf(DEFAULT_PHYSICS)
    /\ contact = NoContact
    /\ \E dx \in DefaultWidths : render = FreshRender(dx)

\* A voice command from the response to the render and the effects that
\* follow it (App.tsx:245-332).  setSceneConfig gives a new scene object, so
\* the engine effect runs again (SimulationCanvas.tsx:17-305: a new engine,
\* Render, world and handlers); setPhysicsState gives a new gravity object, so
\* the physics effect runs (SimulationCanvas.tsx:308-325), after the engine
\* effect.  An effect whose dependencies are the same objects does not run.
\* The canvas keeps its shape and there are no wheel events here, so the new
\* view is as wide as the old one.
CanvasCommand(raw) ==
    LET response == interpretVoiceCommand(raw, now)
        done == OnStopCommit(physicsState, sceneConfig, response)
        sceneSet == HasAdditions(response) \/ HasRemovals(response)
        built == IF sceneSet THEN FreshEngine ELSE engine
    IN  /\ render.present
        /\ physicsState' = done.st.physics
        /\ sceneConfig' = done.st.scene
        /\ engine' = IF HasPhysicsUpdates(response)
                     THEN PhysicsEffect(built, done.st.physics) ELSE built
        /\ IF sceneSet
           THEN /\ render' = FreshRender(render.dx)
                /\ world' = BuildWorld(done.st.scene)
                /\ closure' = ClosureOf(done.st.physics)
           ELSE UNCHANGED renderVars
        /\ toastMsg' = ToastFor(response)
        /\ loadingMsg' = ""
        /\ UNCHANGED <<mode, isRecording, recognition, mediaRecorderRef,
                       recordingStartTime, recorders, analyses, now, lastCmd, probe>>
        /\ contact' = NoContact

\* the collisionStart handler (SimulationCanvas.tsx:200-208)
CollisionStart(pairs) ==
    /\ render.present
    /\ render' = IF ~Truthy(closure.enableCollisionEffects) THEN render
                 ELSE [render EXCEPT !.flash = FlashAfter(render.flash, pairs, Len(pairs))]
    /\ contact' = [seen |-> TRUE, pairs |-> pairs,
                   enabled |-> physicsState.enableCollisionEffects,
                   before |-> render.flash, after |-> render'.flash]
    /\ UNCHANGED <<mode, sceneConfig, physicsState, now, lastCmd, engine, probe,
                   world, closure>>
    /\ UNCHANGED appVars

\* the sparks of the afterRender handler (SimulationCanvas.tsx:235-246)
AfterRender ==
    /\ render.present
    /\ render' = IF FlashActive(render.flash)
                 THEN [render EXCEPT !.flash.frame = render.flash.frame + 1]
                 ELSE render
    /\ contact' = NoContact
    /\ UNCHANGED <<mode, sceneConfig, physicsState, now, lastCmd, engine, probe,
                   world, closure>>
    /\ UNCHANGED appVars

CanvasNext ==
    \/ \E raw \in CanvasCommands : CanvasCommand(raw)
    \/ \E pairs \in ContactEvents : CollisionStart(pairs)
    \/ AfterRender

CanvasSpec == CanvasInit /\ [][CanvasNext]_vars

-----------------------------------------------------------------------------
(* Properties *)

\* the ids of the bodies of a list
BodyIds(bodies) == {bodies[i].id : i \in 1..Len(bodies)}

\* the elements of a list
Range(seq) == {seq[i] : i \in 1..Len(seq)}

\* how often x occurs in a list
Count(seq, x) == Cardinality({i \in 1..Len(seq) : seq[i] = x})

\* the body ids a constraint refers to
Refs(c) == {c.bodyAId} \cup (IF c.bodyBId # NoId THEN {c.bodyBId} ELSE {})

\* C1: after any sequence of voice commands on a scene without dangling
\* references, every constraint of the committed scene refers (bodyAId, and
\* bodyBId when present) to bodies of that scene.  Stated as the claim states
\* it; the code violates it.
C1_NoDanglingReference ==
    \A c \in Range(sceneConfig.constraints) : Refs(c) \subseteq BodyIds(sceneConfig.bodies)

\* C2: after any sequence of voice commands on a scene with unique body ids, no
\* two bodies of the committed scene share an id.  Stated as the claim states
\* it; the code violates it.
C2_UniqueBodyIds ==
    \A i, j \in 1..Len(sceneConfig.bodies) :
        sceneConfig.bodies[i].id = sceneConfig.bodies[j].id => i = j

C4_NoApplyAfterReset ==
    [][\A r \in 1..MaxRecorders :
          (/\ recorders[r].stage = "awaiting"
           /\ recorders[r].afterReset
           /\ recorders'[r].stage = "done")
          => (sceneConfig' = sceneConfig /\ physicsState' = physicsState)]_vars

\* C5: right after resetSimulation nothing records: isRecording is false, no
\* MediaRecorder is recording and the speech recognition is stopped.  Stated
\* as the claim states it; the code violates it.
C5_ResetStopsRecording ==
    [][ResetSimulation =>
          /\ isRecording' = FALSE
          /\ recognition' = "idle"
          /\ \A r \in 1..MaxRecorders : recorders'[r].stage # "recording"]_vars

\* C6: a step in which a voice command ends in a failure (recording under
\* 500 ms, empty audio, timeout, no text, unparsable or misshapen answer, any
\* other service error) leaves the scene and the physics parameters as they
\* were.
C6_FailureAppliesNothing ==
    [][\A r \in 1..MaxRecorders :
          (/\ recorders[r].stage # "done"
           /\ recorders'[r].stage = "done"
           /\ recorders'[r].outcome \in FailureKinds)
          => (sceneConfig' = sceneConfig /\ physicsState' = physicsState)]_vars

\* C6 witness: with a scene on display, one command was rejected as an
\* invalid response and another as a misshapen one
C6_Witness ==
    /\ sceneConfig = SceneAB
    /\ mode = "SIMULATION"
    /\ \E r \in 1..MaxRecorders : recorders[r].outcome = "notACommand"
    /\ \E r \in 1..MaxRecorders : recorders[r].outcome = "parseError"
    /\ toastMsg = "invalidResponse"

\* C7: after a command with a removal list, the scene has no body whose id is
\* in the list and no constraint that refers to such an id, while every body
\* and every constraint of the scene before that refers to no removed id is
\* still there.
C7_RemovalCascades ==
    (lastCmd.outcome = "ok" /\ lastCmd.response.removeBodyIds # <<>>) =>
        LET removed == Range(lastCmd.response.removeBodyIds) IN
        /\ BodyIds(sceneConfig.bodies) \cap removed = {}
        /\ \A c \in Range(sceneConfig.constraints) : Refs(c) \cap removed = {}
        /\ \A c \in Range(lastCmd.pre.constraints) :
              Refs(c) \cap removed = {}
                  => Count(sceneConfig.constraints, c) >= Count(lastCmd.pre.constraints, c)
        /\ \A id \in BodyIds(lastCmd.pre.bodies) :
              id \notin removed => id \in BodyIds(sceneConfig.bodies)

\* C7 witness: bodies a and b, constraints a-b and a-point; removing b leaves
\* body a and the constraint a-point
C7_Witness ==
    /\ lastCmd.outcome = "ok"
    /\ lastCmd.pre = SceneAB
    /\ lastCmd.response.removeBodyIds = <<"b">>
    /\ BodyIds(sceneConfig.bodies) = {"a"}
    /\ sceneConfig.constraints = <<Constraint("a", NoId, Num(1), Undef, Undef)>>

\* C8: a new constraint whose bodyAId is the id of no body after the update and
\* add passes is not in the committed scene.  Stated as the claim states it;
\* the code violates it.
C8_DanglingConstraintDropped ==
    lastCmd.outcome = "ok" =>
        \A c \in Range(lastCmd.response.newConstraints) :
            c.bodyAId \notin (BodyIds(lastCmd.pre.bodies)
                              \cup BodyIds(lastCmd.response.newBodies))
                => c \notin Range(lastCmd.post.constraints)

\* whether an update fragment carries field f
Carries(fragment, f) ==
    IF f = "type" THEN fragment.type # "undefined" ELSE fragment[f] # Undef

\* the fragments of a list that address body j of a list of bodies: the first
\* body with the fragment's id
Addressing(fragments, bodies, j) ==
    {k \in 1..Len(fragments) :
        /\ fragments[k].id = bodies[j].id
        /\ \A i \in 1..(j - 1) : bodies[i].id # fragments[k].id}

\* the last fragment among ks that carries field f, 0 if none does
LastCarrying(fragments, ks, f) ==
    LET cs == {k \in ks : Carries(fragments[k], f)} IN
    IF cs = {} THEN 0 ELSE CHOOSE k \in cs : \A q \in cs : q <= k

\* C9: after a command made of update fragments only, each body has, for each
\* field, the value of the last fragment addressing it that carries the field,
\* and its prior value if none does; the ids, the number and order of the
\* bodies and all constraints are as before.
C9_UpdatePreservesFields ==
    (/\ lastCmd.outcome = "ok"
     /\ lastCmd.pre.present
     /\ lastCmd.response.updatedBodies # <<>>
     /\ lastCmd.response.newBodies = <<>>
     /\ lastCmd.response.newConstraints = <<>>
     /\ lastCmd.response.removeBodyIds = <<>>) =>
        LET frags == lastCmd.response.updatedBodies
            pre == lastCmd.pre.bodies
            post == sceneConfig.bodies
        IN  /\ Len(post) = Len(pre)
            /\ sceneConfig.constraints = lastCmd.pre.constraints
            /\ \A j \in 1..Len(pre) :
                  /\ post[j].id = pre[j].id
                  /\ \A f \in BodyFields :
                        LET k == LastCarrying(frags, Addressing(frags, pre, j), f) IN
                        post[j][f] = IF k = 0 THEN pre[j][f] ELSE frags[k][f]

\* C9 witness: a fragment carrying only friction for body a of the analysed
\* scene changed a's friction and left its position, type and radius
C9_Witness ==
    /\ lastCmd.outcome = "ok"
    /\ lastCmd.pre = SceneAB
    /\ lastCmd.response.updatedBodies = <<[EmptyFragment("a") EXCEPT !.friction = Num(900)]>>
    /\ lastCmd.response.newBodies = <<>>
    /\ lastCmd.response.removeBodyIds = <<>>
    /\ sceneConfig.bodies[1] = [SceneAB.bodies[1] EXCEPT !.friction = Num(900)]
    /\ sceneConfig.bodies[2] = SceneAB.bodies[2]

\* whether the last command is made of nothing but update fragments whose ids
\* match no body of the scene it was applied to
OnlyUnknownUpdates ==
    /\ lastCmd.outcome = "ok"
    /\ lastCmd.response.updatedBodies # <<>>
    /\ BodyIds(lastCmd.response.updatedBodies) \cap BodyIds(lastCmd.pre.bodies) = {}
    /\ lastCmd.response.newBodies = <<>>
    /\ lastCmd.response.newConstraints = <<>>
    /\ lastCmd.response.removeBodyIds = <<>>

EmptyLists(response) ==
    /\ response.newBodies = <<>>
    /\ response.updatedBodies = <<>>
    /\ response.newConstraints = <<>>
    /\ response.removeBodyIds = <<>>

\* C11: a command whose four lists are all empty leaves the committed scene
\* equal to the scene before it (the absent scene stays absent), and applying
\* it once more to the result gives the same scene again.
C11_EmptyCommandKeepsScene ==
    (lastCmd.outcome = "ok" /\ EmptyLists(lastCmd.response)) =>
        LET once == OnStopCommit(lastCmd.prePhysics, lastCmd.pre, lastCmd.response).st.scene
            twice == OnStopCommit(lastCmd.postPhysics, once, lastCmd.response).st.scene
        IN  /\ lastCmd.post = lastCmd.pre
            /\ once = lastCmd.post
            /\ twice = once
            /\ \A sc \in lastCmd.seen : sc = lastCmd.pre

\* C11 witness: a command carrying only a gravity update changed the gravity
\* and left the analysed scene as it was
C11_Witness ==
    /\ lastCmd.outcome = "ok"
    /\ EmptyLists(lastCmd.response)
    /\ lastCmd.response.physicsUpdates = GravityUpdate
    /\ lastCmd.pre = SceneAB
    /\ sceneConfig = SceneAB
    /\ physicsState.gravity.y = Num(1620)

\* C12: in the response every reference (bodyAId, and bodyBId when present) of
\* a new constraint that equals the model id of a new body of the command is
\* the id minted for that body, every other reference is as the model wrote
\* it, and so are the ids of the update fragments and of the removal list.
\* Stated as the claim states it; the code violates it.
C12_RemapConsistent ==
    lastCmd.outcome = "ok" =>
        LET raw == lastCmd.raw
            res == lastCmd.response
            Right(before, after) ==
                IF \E j \in 1..Len(raw.newBodies) : raw.newBodies[j].id = before
                THEN \A j \in 1..Len(raw.newBodies) :
                        raw.newBodies[j].id = before => after = res.newBodies[j].id
                ELSE after = before
        IN  /\ \A i \in 1..Len(raw.newConstraints) :
                  /\ Right(raw.newConstraints[i].bodyAId, res.newConstraints[i].bodyAId)
                  /\ raw.newConstraints[i].bodyBId # NoId
                        => Right(raw.newConstraints[i].bodyBId, res.newConstraints[i].bodyBId)
                  /\ raw.newConstraints[i].bodyBId = NoId
                        => res.newConstraints[i].bodyBId = NoId
            /\ \A k \in 1..Len(raw.updatedBodies) :
                  res.updatedBodies[k].id = raw.updatedBodies[k].id
            /\ res.removeBodyIds = raw.removeBodyIds

\* the part of C12 the code keeps: the same, for ids that are no property
\* names of Object.prototype
C12_RemapConsistentPlainIds ==
    (/\ lastCmd.outcome = "ok"
     /\ \A i \in 1..Len(lastCmd.raw.newConstraints) :
           Refs(lastCmd.raw.newConstraints[i]) \cap ProtoKeys = {}) => C12_RemapConsistent

\* C13: the id minted for a new body is the id of no body minted by an earlier
\* command (the scenes of MergeSpec start with the suffix-free ids a and b, so
\* a body of the scene before the command that has the minted id was minted
\* by an earlier command, from the same model id).  Stated as the claim
\* states it; the code violates it.
C13_MintedIdsNeverRepeat ==
    lastCmd.outcome = "ok" =>
        BodyIds(lastCmd.response.newBodies) \cap BodyIds(lastCmd.pre.bodies) = {}

\* whether a value is a finite number inside [min, max]
InRange(val, min, max) == val.k = "number" /\ min <= val.v /\ val.v <= max

\* C14 as the claim states it: whatever the value and the fallback, the
\* result of sanitizeNumber is a number inside [min, max].
C14_AlwaysInRange ==
    probe.called => InRange(probe.out, probe.min, probe.max)

\* C14 as amended: the result is a number inside [min, max] when the value
\* parses to a finite number, when the fallback is absent, and when the
\* fallback is itself a number inside [min, max]; for a value that does not
\* parse to a finite number the result is the fallback as it was given.
C14_InRangeUnlessFallback ==
    probe.called =>
        /\ (\/ ParseFloat(probe.val).k = "number"
            \/ probe.fallback = Undef
            \/ InRange(probe.fallback, probe.min, probe.max))
              => InRange(probe.out, probe.min, probe.max)
        /\ (ParseFloat(probe.val).k # "number" /\ probe.fallback # Undef)
              => probe.out = probe.fallback

\* C14 witness: 3 with the range [0, 1] and the fallback 0.5 gives 1
C14_Witness ==
    /\ probe.called
    /\ probe.val = Num(3000) /\ probe.min = 0 /\ probe.max = 1000
    /\ probe.fallback = Num(500)
    /\ probe.out = Num(1000)

\* C15 as the claim states it: whatever the value and the fallback,
\* sanitizeNumber of the result is the result.
C15_Idempotent ==
    probe.called => probe.again = probe.out

\* C15 as amended: sanitizeNumber of the result is the result when the value
\* parses to a finite number, when the fallback is absent, and when the
\* fallback is a number inside [min, max].
C15_IdempotentUnlessFallback ==
    (/\ probe.called
     /\ \/ ParseFloat(probe.val).k = "number"
        \/ probe.fallback = Undef
        \/ InRange(probe.fallback, probe.min, probe.max)) => probe.again = probe.out

\* C15 witness: the string "3px" with the range [1, 1.5] gives 1.5, and 1.5
\* gives 1.5 again
C15_Witness ==
    /\ probe.called
    /\ probe.val = Str(3000) /\ probe.min = 1000 /\ probe.max = 1500
    /\ probe.out = Num(1500)
    /\ probe.again = Num(1500)

\* a field that is absent, or a finite number inside [min, max]
AbsentOrInRange(val, min, max) == val = Undef \/ InRange(val, min, max)

\* whether the numeric fields a body or an update fragment carries are all
\* finite and inside the ranges interpretVoiceCommand clamps them to
BodyNumbersSafe(b) ==
    /\ AbsentOrInRange(b.friction, 0, 1000)
    /\ AbsentOrInRange(b.x, -2000000, 2000000)
    /\ AbsentOrInRange(b.y, -2000000, 2000000)
    /\ AbsentOrInRange(b.radius, 1000, 400000)
    /\ AbsentOrInRange(b.width, 1000, 2000000)
    /\ AbsentOrInRange(b.height, 1000, 2000000)

\* C16: in what interpretVoiceCommand returns, every numeric field carried by
\* a new body, an update fragment or a new constraint is a finite number
\* inside the field's range, and a new body has a position and a friction.
\* Stated as the claim states it; the code violates it.
C16_AllNumbersSanitized ==
    lastCmd.outcome = "ok" =>
        LET res == lastCmd.response IN
        /\ \A i \in 1..Len(res.newBodies) :
              /\ BodyNumbersSafe(res.newBodies[i])
              /\ res.newBodies[i].x # Undef
              /\ res.newBodies[i].y # Undef
              /\ res.newBodies[i].friction # Undef
        /\ \A i \in 1..Len(res.updatedBodies) : BodyNumbersSafe(res.updatedBodies[i])
        /\ \A i \in 1..Len(res.newConstraints) :
              /\ AbsentOrInRange(res.newConstraints[i].stiffness, 1, 1000)
              /\ AbsentOrInRange(res.newConstraints[i].length, 1000, 1000000)

\* C17: a voice command succeeds only if its payload has a summary, and a
\* payload that does not parse, or parses to something that is no command
\* (null, lists that are no lists), is reported as an invalid response.
\* Stated as the claim states it; the code violates it.
C17_MalformedIsInvalidResponse ==
    [][\A r \in 1..MaxRecorders :
          (recorders[r].stage = "awaiting" /\ recorders'[r].stage = "done") =>
              /\ recorders'[r].outcome = "ok" => lastCmd'.raw.summary
              /\ recorders'[r].outcome \in {"parseError", "notACommand"}
                    => toastMsg' = "invalidResponse"]_vars

\* C18: a command that ends because the recording was shorter than 500 ms or
\* the audio payload too small ends before the service is called (its handler
\* never awaited the service), and the step that ends it shows the user the
\* message reporting it.  Stated as the claim states it; the code violates it.
C18_ShortCaptureRejectedWithMessage ==
    [][\A r \in 1..MaxRecorders :
          (/\ recorders[r].stage # "done"
           /\ recorders'[r].stage = "done"
           /\ recorders'[r].outcome \in {"shortRecording", "emptyAudio"})
          => /\ recorders[r].stage # "awaiting"
             /\ toastMsg' = "tooShort"]_vars

ScaledAndClamped(v, e) ==
    /\ -10000 <= e /\ e <= 10000
    /\ v >= 0 => /\ e >= 0
                 /\ e * 9810 <= v * 1000
                 /\ e < 10000 => v * 1000 < (e + 1) * 9810
    /\ v <= 0 => /\ e <= 0
                 /\ e * 9810 >= v * 1000
                 /\ e > -10000 => v * 1000 > (e - 1) * 9810

\* whether the engine's gravity on an axis is what the claim says for the
\* parameter value val and the default of the axis
AxisAsClaimed(val, e, default) ==
    /\ e.k = "number"
    /\ IF ToNumber(val).k = "number"
       THEN ScaledAndClamped(ToNumber(val).v, e.v)
       ELSE e.v = default

\* C20: the gravity of the engine is, on each axis, the parameter times 1/9.81
\* clamped to [-10, 10], and 0 (horizontal) or 1 (vertical) when the product
\* is not finite; so it is always finite and within [-10, 10].
C20_GravityNormalized ==
    engine.present =>
        /\ AxisAsClaimed(physicsState.gravity.x, engine.gravity.x, 0)
        /\ AxisAsClaimed(physicsState.gravity.y, engine.gravity.y, 1000)
        /\ InRange(engine.gravity.x, -10000, 10000)
        /\ InRange(engine.gravity.y, -10000, 10000)
        /\ physicsState.gravity = [x |-> Num(0), y |-> Num(9810)]
              => engine.gravity = [x |-> Num(0), y |-> Num(1000)]
        /\ physicsState.gravity = [x |-> NaNVal, y |-> PosInf]
              => engine.gravity = [x |-> Num(0), y |-> Num(1000)]

\* C20 witness: a command set the gravity parameter to (NaN, Infinity) and the
\* engine's gravity is (0, 1)
C20_Witness ==
    /\ engine.present
    /\ physicsState.gravity = [x |-> NaNVal, y |-> PosInf]
    /\ engine.gravity = [x |-> Num(0), y |-> Num(1000)]
    /\ toastMsg = "success"

\* C21: the width of the view stays between 100 and 4000 world units whatever
\* wheel events arrive.
C21_WidthWithinBounds ==
    render.present => (10000 <= render.dx /\ render.dx <= 400000)

\* the contact effect as the user sees it: idle, or active at a point with an
\* age
EffectState(flash) ==
    IF FlashActive(flash)
    THEN [active |-> TRUE, x |-> flash.x, y |-> flash.y, age |-> flash.frame]
    ELSE [active |-> FALSE, x |-> Undef, y |-> Undef, age |-> 0]

\* contact points with finite coordinates, and with a coordinate that is not
FinitePoints == {p \in ContactPoints \ {Undef} : IsFiniteNumber(p.x) /\ IsFiniteNumber(p.y)}
NonFinitePoints == (ContactPoints \ {Undef}) \ FinitePoints

\* the flash of an effect at point p with age 0
FlashAt(p) == [set |-> TRUE, x |-> p.x, y |-> p.y, frame |-> 0]

\* the last step was a contact event at the one point p
ContactAt(p) == contact.seen /\ contact.pairs = <<p>>

\* C22: with collision effects enabled a contact at a point sets the effect to
\* that point with age 0, whatever the effect was; a render tick raises the
\* age of an active effect by one and leaves its point; the effect is active
\* while its age is below 10, so for exactly 10 ticks, and its age never
\* exceeds 10.
C22_SingleSlotTimer ==
    /\ [](\A p \in FinitePoints :
            (ContactAt(p) /\ Truthy(contact.enabled))
            => EffectState(contact.after) = EffectState(FlashAt(p)))
    /\ [](render.flash.frame <= 10)
    /\ [][(AfterRender /\ FlashActive(render.flash))
              => /\ render'.flash.frame = render.flash.frame + 1
                 /\ render'.flash.x = render.flash.x
                 /\ render'.flash.y = render.flash.y
                 /\ FlashActive(render'.flash) <=> render'.flash.frame < 10]_vars

\* C23: a contact at a point with a coordinate that is not finite leaves the
\* contact effect as it was: idle, or active with its point and age.
C23_NonFiniteContactIsNoOp ==
    \A p \in NonFinitePoints :
        ContactAt(p) => EffectState(contact.after) = EffectState(contact.before)

\* C24: a contact activates the effect exactly if collision effects are
\* enabled in the physics parameters at the time of the contact.
C24_EffectsFollowCurrentParameters ==
    \A p \in FinitePoints :
        ContactAt(p) =>
            IF Truthy(contact.enabled)
            THEN EffectState(contact.after) = EffectState(FlashAt(p))
            ELSE EffectState(contact.after) = EffectState(contact.before)

\* C25: whenever there is an engine, its gravity and its time scale are the
\* ones derived from the current physics parameters.
C25_EngineFollowsPhysics ==
    engine.present =>
        /\ engine.gravity = [x |-> GravityAxis(physicsState.gravity.x, 0),
                             y |-> GravityAxis(physicsState.gravity.y, 1000)]
        /\ engine.timeScale = physicsState.timeScale

\* C26: every constraint of the world was made from a definition whose body
\* ids all resolve to bodies of the world, and has an anchor point only if
\* its definition has no bodyBId.
C26_ConstraintsResolve ==
    \A i \in 1..Len(world.constraints) :
        LET c == world.constraints[i] IN
        /\ c.def.bodyAId \in world.bodies
        /\ c.def.bodyBId # NoId => c.def.bodyBId \in world.bodies
        /\ c.pointB # Undef => c.def.bodyBId = NoId

\* C27: an analysis that resolves when the user has reset to the camera since
\* its capture (so in CAMERA mode: a new capture would have left it) changes
\* neither the mode nor the scene nor the physics parameters.
C27_LateAnalysisIgnoredAfterReset ==
    [][\A a \in 1..MaxAnalyses, config \in AnalysisScenes :
          (mode = "CAMERA" /\ sceneConfig = NoScene /\ AnalysisResolved(a, config))
          => /\ mode' = "CAMERA"
             /\ sceneConfig' = NoScene
             /\ physicsState' = DEFAULT_PHYSICS]_vars

====
